---------------------------- MODULE Spec2Model ----------------------------
(***************************************************************************)
(* Model of src/mcp-server.py: the MCPServer command dispatcher.           *)
(*                                                                         *)
(* Text is modelled by TLA+ strings (Len, \o and SubSeq work on them).     *)
(* The emoji the program prints are written as three-character ASCII       *)
(* tokens, because the module's character set is ASCII; none of the        *)
(* tokens contains a letter, as none of the emoji does.                    *)
(***************************************************************************)
EXTENDS Integers, Sequences, FiniteSets, TLC

VARIABLES
    text,         \* argument of the formatter under test
    formatted,    \* value returned by the formatter
    fpc,          \* position of the formatter harness: "input" | "command" | "error"
                  \*   | "again" | "again_plain"
    reformatted,  \* value returned when the formatter is given its own output
    pc,           \* await point the server is suspended at, "idle" or "returned"
    call,         \* the call in progress: function, tool and arguments
    compose_file, \* state of <project_root>/docker-compose.yml on disk
    procs,        \* child processes created by the call, in creation order
    validation,   \* value returned by _validate_docker_environment: "none" | "True" | "False"
    outcome,      \* how the awaited work of the call ended
    captured,     \* what communicate() handed back: returncode, stdout, stderr, centiseconds
    response      \* what the call gave back to its caller: a return value or a raised exception

fvars == <<text, formatted, fpc, reformatted>>
svars == <<pc, call, compose_file, procs, validation, outcome, captured, response>>
vars  == <<text, formatted, fpc, reformatted, pc, call, compose_file, procs, validation, outcome,
           captured, response>>

-----------------------------------------------------------------------------
(* Bounds *)

MaxFrags == 3          \* fragments concatenated into a formatter input

-----------------------------------------------------------------------------
(* Icons: ASCII stand-ins for the emoji literals of the source *)

ICON_OK      == "[+]"   \* U+2705 white heavy check mark
ICON_WARN    == "[~]"   \* U+1F7E1 yellow circle
ICON_ERR     == "[-]"   \* U+1F534 red circle
ICON_FIRE    == "[*]"   \* U+1F525 fire
ICON_FAIL    == "[!]"   \* U+274C cross mark
ICON_ROCKET  == "[>]"   \* U+1F680 rocket
ICON_CLIP    == "[#]"   \* U+1F4CB clipboard
ICON_TIMER   == "[@]"   \* U+23F1 U+FE0F stopwatch
ICON_PAGE    == "[=]"   \* U+1F4C4 page facing up
ICON_CHART   == "[%]"   \* U+1F4CA bar chart
ICON_FOLDER  == "[/]"   \* U+1F4C1 file folder
ICON_WHALE   == "[&]"   \* U+1F433 spouting whale
ICON_MAG     == "[?]"   \* U+1F50D magnifying glass
ICON_INFO    == "[.]"   \* U+2139 U+FE0F information
ICON_BULB    == "[^]"   \* U+1F4A1 light bulb
ICON_NOENTRY == "[|]"   \* U+1F6AB prohibited
ICON_SIGN    == "[:]"   \* U+26A0 U+FE0F warning sign
ICON_CYCLE   == "[<]"   \* U+1F504 counterclockwise arrows
ICON_GLASS   == "[;]"   \* U+23F3 hourglass
ICON_QUERY   == "[,]"   \* U+2753 question mark
ICON_WRENCH  == "[$]"   \* U+1F527 wrench
ICON_BOOKS   == "[_]"   \* U+1F4DA books
ICON_KEY     == "[(]"   \* U+1F511 key
ICON_PARTY   == "[)]"   \* U+1F389 party popper

-----------------------------------------------------------------------------
(* Python str primitives *)

UPPERCASE == "ABCDEFGHIJKLMNOPQRSTUVWXYZ"
LOWERCASE == "abcdefghijklmnopqrstuvwxyz"

CharAt(s, i) == SubSeq(s, i, i)

\* str.lower() on one character
LowerChar(c) ==
    IF \E i \in 1..26 : CharAt(UPPERCASE, i) = c
    THEN CharAt(LOWERCASE, CHOOSE i \in 1..26 : CharAt(UPPERCASE, i) = c)
    ELSE c

RECURSIVE Lower(_)
\* str.lower()
Lower(s) ==
    IF Len(s) = 0 THEN ""
    ELSE LowerChar(CharAt(s, 1)) \o Lower(SubSeq(s, 2, Len(s)))

\* the `in` operator on strings: sub in s
Contains(s, sub) ==
    \E i \in 1..(Len(s) - Len(sub) + 1) : SubSeq(s, i, i + Len(sub) - 1) = sub

\* characters removed by str.strip() and separating words for str.split()
Whitespace == {" ", "\n", "\t", "\r"}

RECURSIVE LStrip(_)
LStrip(s) ==
    IF Len(s) > 0 /\ CharAt(s, 1) \in Whitespace
    THEN LStrip(SubSeq(s, 2, Len(s)))
    ELSE s

RECURSIVE RStrip(_)
RStrip(s) ==
    IF Len(s) > 0 /\ CharAt(s, Len(s)) \in Whitespace
    THEN RStrip(SubSeq(s, 1, Len(s) - 1))
    ELSE s

\* str.strip()
Strip(s) == RStrip(LStrip(s))

RECURSIVE SplitOn(_, _)
\* str.split(sep) for a one-character separator: always at least one element
SplitOn(s, sep) ==
    IF ~ \E i \in 1..Len(s) : CharAt(s, i) = sep
    THEN <<s>>
    ELSE LET k == CHOOSE i \in 1..Len(s) :
                     /\ CharAt(s, i) = sep
                     /\ \A j \in 1..(i - 1) : CharAt(s, j) # sep
         IN  <<SubSeq(s, 1, k - 1)>> \o SplitOn(SubSeq(s, k + 1, Len(s)), sep)

RECURSIVE SplitWords(_)
\* str.split() without separator: runs of non-whitespace, no empty words
SplitWords(s) ==
    LET t == LStrip(s)
    IN  IF Len(t) = 0 THEN <<>>
        ELSE LET ends == {i \in 1..Len(t) : CharAt(t, i) \in Whitespace}
                 k    == IF ends = {} THEN Len(t) + 1
                         ELSE CHOOSE i \in ends : \A j \in ends : i <= j
             IN  <<SubSeq(t, 1, k - 1)>> \o SplitWords(SubSeq(t, k, Len(t)))

RECURSIVE Join(_, _)
\* sep.join(parts)
Join(parts, sep) ==
    IF Len(parts) = 0 THEN ""
    ELSE IF Len(parts) = 1 THEN parts[1]
    ELSE parts[1] \o sep \o Join(Tail(parts), sep)

-----------------------------------------------------------------------------
(* Output formatting, src/mcp-server.py:588-615 *)

\* word stems instead of the words of line 595
SUCCESS_WORDS_Stems == {"succe", "pass", "complet"}

SUCCESS_WORDS == {"success", "passed", "complete"}
WARNING_WORDS == {"warning"}
ERROR_WORDS   == {"error"}

\* any(word in line.lower() for word in words)
AnyWordIn(words, line) ==
    LET lowered == Lower(line)
    IN  \E word \in words : Contains(lowered, word)

\* the error keyword tested before the warning keyword
FormatLine_ErrorFirst(line) ==
    IF AnyWordIn(SUCCESS_WORDS, line) THEN ICON_OK \o " " \o line
    ELSE IF AnyWordIn(ERROR_WORDS, line) THEN ICON_ERR \o " " \o line
    ELSE IF AnyWordIn(WARNING_WORDS, line) THEN ICON_WARN \o " " \o line
    ELSE line

\* keywords looked for at the start of the line only
FormatLine_Prefix(line) ==
    LET low == Lower(line)
        any(keys) == \E k \in keys : Len(low) >= Len(k) /\ SubSeq(low, 1, Len(k)) = k
    IN  IF any(SUCCESS_WORDS) THEN ICON_OK \o " " \o line
        ELSE IF any(WARNING_WORDS) THEN ICON_WARN \o " " \o line
        ELSE IF any(ERROR_WORDS) THEN ICON_ERR \o " " \o line
        ELSE line

\* keywords matched against the whole words of the line, not its substrings
FormatLine_WholeWords(line) ==
    LET words == SplitWords(Lower(line))
        any(keys) == \E i \in 1..Len(words) : words[i] \in keys
    IN  IF any(SUCCESS_WORDS) THEN ICON_OK \o " " \o line
        ELSE IF any(WARNING_WORDS) THEN ICON_WARN \o " " \o line
        ELSE IF any(ERROR_WORDS) THEN ICON_ERR \o " " \o line
        ELSE line

\* the if/elif chain of the loop body
FormatLine(line) ==
    IF AnyWordIn(SUCCESS_WORDS, line) THEN ICON_OK \o " " \o line
    ELSE IF AnyWordIn(WARNING_WORDS, line) THEN ICON_WARN \o " " \o line
    ELSE IF AnyWordIn(ERROR_WORDS, line) THEN ICON_ERR \o " " \o line
    ELSE line

\* lines = output.strip().split('\n')
OutputLines(output) == SplitOn(Strip(output), "\n")

\* blank lines skipped, as _format_error_output does
_format_command_output_SkipBlank(output) ==
    LET lines == OutputLines(output)
        kept  == SelectSeq(lines, LAMBDA l : Len(Strip(l)) > 0)
    IN  Join([i \in 1..Len(kept) |-> FormatLine(kept[i])], "\n")

_format_command_output(output) ==
    LET lines == OutputLines(output)
    IN  Join([i \in 1..Len(lines) |-> FormatLine(lines[i])], "\n")

_format_error_output(output) ==
    LET lines == OutputLines(output)
        kept  == SelectSeq(lines, LAMBDA l : Len(Strip(l)) > 0)
    IN  Join([i \in 1..Len(kept) |-> ICON_FIRE \o " " \o kept[i]], "\n")

-----------------------------------------------------------------------------
(* Bytes, exceptions and return values *)

\* A bytes object: its content read as text, and the positions holding a byte
\* that no UTF-8 sequence contains (0xFF).
B(s) == [data |-> s, bad |-> {}]
NoBytes == B("")

\* bool(b) of a bytes object
Truthy(b) == Len(b.data) > 0

\* the exception classes the modelled code can meet, with their base classes
Bases ==
    [ FileNotFoundError  |-> {"FileNotFoundError", "OSError", "Exception"},
      PermissionError    |-> {"PermissionError", "OSError", "Exception"},
      UnicodeDecodeError |-> {"UnicodeDecodeError", "ValueError", "Exception"},
      JSONDecodeError    |-> {"JSONDecodeError", "ValueError", "Exception"},
      TypeError          |-> {"TypeError", "Exception"},
      AttributeError     |-> {"AttributeError", "Exception"},
      YAMLError          |-> {"YAMLError", "Exception"} ]

\* does `except cls` catch an exception of class exc
IsInstance(exc, cls) == cls \in Bases[exc]

\* str(e)
StrOf(exc) ==
    CASE exc = "FileNotFoundError"  -> "[Errno 2] No such file or directory"
      [] exc = "PermissionError"    -> "[Errno 13] Permission denied"
      [] exc = "UnicodeDecodeError" -> "'utf-8' codec can't decode byte 0xff"
      [] exc = "JSONDecodeError"    -> "Expecting value: line 1 column 1 (char 0)"
      [] exc = "TypeError"          -> "'NoneType' object is not subscriptable"
      [] exc = "AttributeError"     -> "'str' object has no attribute 'get'"
      [] exc = "YAMLError"          -> "mapping values are not allowed here"

Return(v) == [kind |-> "return", value |-> v]
Raise(exc) == [kind |-> "raise", value |-> exc]
NoResponse == [kind |-> "none", value |-> ""]

\* bytes.decode(): strict UTF-8
Decode(b) == IF b.bad = {} THEN Return(b.data) ELSE Raise("UnicodeDecodeError")

-----------------------------------------------------------------------------
(* The registered tools that run a docker command, src/mcp-server.py:33-91 *)

DEFAULT_TIMEOUT == 300
FULL_CI_TIMEOUT == 600

Tool(name, command, description, timeout, compose_command) ==
    [ fn |-> "_run_docker_command", tool |-> name, command |-> command,
      description |-> description, timeout |-> timeout,
      compose_command |-> compose_command ]

DockerTools ==
    { Tool("format_check", "format-check", "Checking C++ code formatting...",
           DEFAULT_TIMEOUT, FALSE),
      Tool("format_fix", "format-fix", "Auto-fixing C++ formatting...",
           DEFAULT_TIMEOUT, FALSE),
      Tool("lint", "lint", "Running C++ linting checks...", DEFAULT_TIMEOUT, FALSE),
      Tool("analyze", "analyze", "Running static analysis...", DEFAULT_TIMEOUT, FALSE),
      Tool("full_ci", "ci", "Running complete CI pipeline...", FULL_CI_TIMEOUT, FALSE),
      Tool("start_dev_env", "up mcp-server -d", "Starting MCP Server...",
           DEFAULT_TIMEOUT, TRUE),
      Tool("stop_dev_env", "down", "Stopping MCP Server...", DEFAULT_TIMEOUT, TRUE) }

ProjectStatusCall == [fn |-> "_get_project_status", tool |-> "project_status"]
NoCall == [fn |-> "none", tool |-> "none"]

PROJECT_ROOT == "/workspace"

-----------------------------------------------------------------------------
(* Child processes *)

\* what asyncio.create_subprocess_exec can do: start the child, or raise
SpawnResults == {"started", "FileNotFoundError", "PermissionError"}

Proc(argv) == [argv |-> argv, state |-> "running", returncode |-> -1]

Exited(p, rc) == [p EXCEPT !.state = "exited", !.returncode = rc]
Killed_NotSent(p) == p
Killed(p) == [p EXCEPT !.state = "killed"]

\* the last process created is the one the call is awaiting
SetLast(ps, p) == [ps EXCEPT ![Len(ps)] = p]
Last(ps) == ps[Len(ps)]

NoCapture == [returncode |-> -1, stdout |-> NoBytes, stderr |-> NoBytes, centis |-> 0]

-----------------------------------------------------------------------------
(* _validate_docker_environment, src/mcp-server.py:479-497 *)

DOCKER_PS == <<"docker", "ps">>

\* the probe started without looking for docker-compose.yml
ValidateUntilProbe_NoFileCheck(file, spawn) ==
    IF spawn # "started" THEN "False" ELSE "pending"

\* lines 481-492 and 496-497: the part before the await.  Gives the value
\* returned when the function ends there, "pending" when the probe runs.
ValidateUntilProbe(file, spawn) ==
    IF file = "error" THEN "False"            \* exists() raised: except Exception
    ELSE IF file = "missing" THEN "False"     \* line 485
    ELSE IF spawn # "started" THEN "False"    \* create_subprocess_exec raised
    ELSE "pending"

\* line 494
ValidateAfterProbe(returncode) == IF returncode = 0 THEN "True" ELSE "False"

-----------------------------------------------------------------------------
(* _run_docker_command, src/mcp-server.py:400-477 *)

ENV_FAILURE ==
    ICON_FAIL \o " Docker environment validation failed. Please ensure Docker is running and docker-compose.yml exists."

\* every command wrapped in a disposable container, compose commands too
BuildCmd_AlwaysRun(c) == <<"docker-compose", "run", "--rm", c.command>>

\* lines 417-421
BuildCmd(c) ==
    IF c.compose_command
    THEN <<"docker-compose">> \o SplitWords(c.command)
    ELSE <<"docker-compose", "run", "--rm", c.command>>

Digit(n) == CharAt("0123456789", n + 1)

\* f"{execution_time:.2f}" of a time held in centiseconds
Fixed2(centis) ==
    ToString(centis \div 100) \o "." \o Digit((centis \div 10) % 10) \o Digit(centis % 10)

\* a handler that catches operating-system errors only
RunDockerHandler_OSErrorOnly(result) ==
    IF result.kind = "raise" /\ IsInstance(result.value, "OSError")
    THEN Return(ICON_FAIL \o " Error executing command: " \o StrOf(result.value))
    ELSE result

\* lines 473-477: the handler around the whole body
RunDockerHandler(result) ==
    IF result.kind = "raise" /\ IsInstance(result.value, "Exception")
    THEN Return(ICON_FAIL \o " Error executing command: " \o StrOf(result.value))
    ELSE result

\* the message names the default bound instead of the bound of the call
TimeoutMessage_DefaultBound(c, cmd) ==
    ICON_FAIL \o " Command timed out after " \o ToString(DEFAULT_TIMEOUT)
        \o " seconds: " \o Join(cmd, " ")

\* lines 438-443
TimeoutMessage(c, cmd) ==
    ICON_FAIL \o " Command timed out after " \o ToString(c.timeout)
        \o " seconds: " \o Join(cmd, " ")

\* lines 454-458
SuccessSection(stdout) ==
    IF ~ Truthy(stdout) THEN Return(<<ICON_OK \o " Success!">>)
    ELSE LET out == Decode(stdout)
         IN  IF out.kind = "raise" THEN out
             ELSE Return(<<ICON_OK \o " Success!", ICON_PAGE \o " Output:",
                           _format_command_output(out.value)>>)

\* lines 459-466
FailureSection(returncode, stdout, stderr) ==
    LET banner == <<ICON_FAIL \o " Failed with exit code " \o ToString(returncode)>>
        err == IF Truthy(stderr) THEN Decode(stderr) ELSE Return("")
        out == IF Truthy(stdout) THEN Decode(stdout) ELSE Return("")
    IN  IF err.kind = "raise" THEN err
        ELSE IF out.kind = "raise" THEN out
        ELSE Return(banner
                 \o (IF Truthy(stderr)
                     THEN <<ICON_FIRE \o " Error output:", _format_error_output(err.value)>>
                     ELSE <<>>)
                 \o (IF Truthy(stdout)
                     THEN <<ICON_PAGE \o " Standard output:",
                            _format_command_output(out.value)>>
                     ELSE <<>>))

\* lines 445-471: the report of a child that completed
CompletedReport(c, cmd, cap) ==
    LET head == << ICON_ROCKET \o " " \o c.description,
                   ICON_CLIP \o " Command: " \o Join(cmd, " "),
                   ICON_TIMER \o "  Execution time: " \o Fixed2(cap.centis) \o "s",
                   "" >>
        section == IF cap.returncode = 0
                   THEN SuccessSection(cap.stdout)
                   ELSE FailureSection(cap.returncode, cap.stdout, cap.stderr)
    IN  IF section.kind = "raise" THEN section
        ELSE Return(Join(head \o section.value, "\n"))

-----------------------------------------------------------------------------
(* _get_project_status, src/mcp-server.py:565-586 *)

ProjectStatusReport(docker_status) ==
    Return(Join(<< ICON_CHART \o " Project Status",
                   ICON_FOLDER \o " Project root: " \o PROJECT_ROOT,
                   "",
                   ICON_WHALE \o " Docker: "
                      \o (IF docker_status = "True" THEN ICON_OK \o " Available"
                          ELSE ICON_FAIL \o " Not available") >>, "\n"))

-----------------------------------------------------------------------------
(* JSON values as json.loads returns them *)

Absent    == [t |-> "absent"]               \* key not in the dict
Null      == [t |-> "null"]                 \* None
Str(x)    == [t |-> "str", s |-> x]
Num(n)    == [t |-> "num", n |-> n]
Obj(f)    == [t |-> "object", fields |-> f] \* dict: every known key, Absent if unset
Arr(xs)   == [t |-> "array", items |-> xs]

\* dict.get(key, default)
Get(obj, key, default) ==
    IF obj.fields[key].t = "absent" THEN Str(default) ELSE obj.fields[key]

\* how an f-string shows a value
Shown(v) ==
    CASE v.t = "str"  -> v.s
      [] v.t = "num"  -> ToString(v.n)
      [] v.t = "null" -> "None"

\* v == 'literal'
IsStr(v, literal) == v.t = "str" /\ v.s = literal

\* bool(v)
TruthyValue(v) ==
    CASE v.t = "str"    -> Len(v.s) > 0
      [] v.t = "num"    -> v.n # 0
      [] v.t = "null"   -> FALSE
      [] v.t = "array"  -> Len(v.items) > 0
      [] v.t = "object" -> TRUE

RECURSIVE ReplaceChar(_, _, _)
\* str.replace(old, new) for single characters
ReplaceChar(s, old, new) ==
    IF Len(s) = 0 THEN ""
    ELSE (IF CharAt(s, 1) = old THEN new ELSE CharAt(s, 1))
            \o ReplaceChar(SubSeq(s, 2, Len(s)), old, new)

\* s[:n]
Prefix(s, n) == SubSeq(s, 1, IF Len(s) < n THEN Len(s) ELSE n)

-----------------------------------------------------------------------------
(* _check_github_auth, src/mcp-server.py:211-285 *)

GH_VERSION     == <<"gh", "--version">>
GH_AUTH_STATUS == <<"gh", "auth", "status">>

Auth(ok, messages) == [authenticated |-> ok, messages |-> messages]

\* lines 223-230
AuthNoCli ==
    Auth(FALSE, << ICON_FAIL \o " GitHub CLI not found",
                   ICON_BULB \o " Install GitHub CLI in container: included in Dockerfile",
                   ICON_BOOKS \o " Setup guide: ./scripts/setup-github-auth.sh" >>)

\* lines 241-244
AuthOk == Auth(TRUE, <<ICON_OK \o " GitHub CLI authenticated">>)

\* lines 246-276
AuthMissing(token) ==
    Auth(FALSE,
         << ICON_FAIL \o " GitHub CLI not authenticated",
            ICON_WRENCH \o " Container setup:" >>
         \o (IF token
             THEN << "  1. GITHUB_TOKEN found in environment",
                     "  2. Run: echo $GITHUB_TOKEN | gh auth login --with-token" >>
             ELSE << "  1. Set GITHUB_TOKEN environment variable",
                     "  2. Run: docker-compose up -d mcp-server",
                     "  3. Or run: ./scripts/setup-github-auth.sh" >>)
         \o << "",
               ICON_KEY \o " Token requirements for private repos:",
               "  - repo (full control of private repositories)",
               "  - workflow (update GitHub Action workflows)",
               "  - read:org (read org and team membership)" >>)

\* lines 278-285: except Exception around the whole function
AuthHandler(exc) ==
    IF IsInstance(exc, "Exception")
    THEN [kind |-> "return",
          value |-> Auth(FALSE, << ICON_FAIL \o " Error checking GitHub auth: " \o StrOf(exc),
                                   ICON_BULB \o " Run: ./scripts/setup-github-auth.sh" >>)]
    ELSE Raise(exc)

-----------------------------------------------------------------------------
(* _check_workflow_runs, src/mcp-server.py:113-209 *)

RunKeys == {"status", "conclusion", "workflowName", "headBranch", "createdAt",
            "url", "databaseId"}

RECURSIVE Repeat(_, _)
\* s * n
Repeat(s, n) == IF n = 0 THEN "" ELSE s \o Repeat(s, n - 1)

\* lines 116-119
RunsHeader == << ICON_MAG \o " GitHub Actions Workflow Status", Repeat("=", 40), "" >>

\* lines 128-132
RunListCmd(c) ==
    << "gh", "run", "list", "--limit", ToString(c.limit), "--json",
       "status,conclusion,name,createdAt,headBranch,workflowName,url,databaseId" >>
    \o (IF Len(c.workflow_name) > 0 THEN <<"--workflow", c.workflow_name>> ELSE <<>>)

\* lines 205-209: the handler around the whole body
CheckRunsHandler(result) ==
    IF result.kind = "raise" /\ IsInstance(result.value, "Exception")
    THEN Return(ICON_FAIL \o " Error checking workflow runs: " \o StrOf(result.value))
    ELSE result

\* lines 123-125
AuthRefused(auth) == Return(Join(RunsHeader \o auth.messages, "\n"))

\* lines 196-203: except FileNotFoundError around the query, then the return
RunListSpawnFailed(exc) ==
    IF IsInstance(exc, "FileNotFoundError")
    THEN Return(Join(RunsHeader \o
            << ICON_FAIL \o " GitHub CLI (gh) not found",
               ICON_BULB \o " Install GitHub CLI: https://cli.github.com/",
               "",
               ICON_WRENCH \o " Alternative: Check workflows manually",
               "   Visit: https://github.com/your-repo/actions" >>, "\n"))
    ELSE Raise(exc)

\* lines 172-186
StatusIcon(status, conclusion) ==
    IF IsStr(status, "completed")
    THEN IF IsStr(conclusion, "success") THEN ICON_OK
         ELSE IF IsStr(conclusion, "failure") THEN ICON_FAIL
         ELSE IF IsStr(conclusion, "cancelled") THEN ICON_NOENTRY
         ELSE ICON_SIGN
    ELSE IF IsStr(status, "in_progress") THEN ICON_CYCLE
    ELSE IF IsStr(status, "queued") THEN ICON_GLASS
    ELSE ICON_QUERY

\* lines 163-194: the lines of one run, or the exception the loop body raises
RunBlock(run) ==
    IF run.t # "object" THEN Raise("AttributeError")       \* run.get
    ELSE
    LET status     == Get(run, "status", "unknown")
        conclusion == Get(run, "conclusion", "unknown")
        name       == Get(run, "workflowName", "Unknown")
        branch     == Get(run, "headBranch", "unknown")
        created    == Get(run, "createdAt", "")
        url        == Get(run, "url", "")
        run_id     == Get(run, "databaseId", "")
    IN  IF created.t # "str" THEN Raise("TypeError")        \* created[:19]
        ELSE [kind |-> "return", value |->
              << StatusIcon(status, conclusion) \o " **" \o Shown(name) \o "** ("
                    \o Shown(branch) \o ")",
                 "   Status: " \o Shown(status) \o " | Conclusion: " \o Shown(conclusion),
                 "   Created: " \o ReplaceChar(Prefix(created.s, 19), "T", " "),
                 "   Run ID: " \o Shown(run_id) >>
              \o (IF TruthyValue(url) THEN <<"   URL: " \o Shown(url)>> ELSE <<>>)
              \o <<"">>]

RECURSIVE RunBlocks(_)
\* lines 162-194: the loop; the first exception ends it
RunBlocks(items) ==
    IF Len(items) = 0 THEN [kind |-> "return", value |-> <<>>]
    ELSE LET first == RunBlock(Head(items))
         IN  IF first.kind = "raise" THEN first
             ELSE LET rest == RunBlocks(Tail(items))
                  IN  IF rest.kind = "raise" THEN rest
                      ELSE [kind |-> "return", value |-> first.value \o rest.value]

\* json.loads(stdout.decode()): doc is what the bytes parse to, or "malformed"
JsonLoads(stdout) ==
    IF stdout.bad # {} THEN Raise("UnicodeDecodeError")
    ELSE IF stdout.doc.t = "malformed" THEN Raise("JSONDecodeError")
    ELSE [kind |-> "return", value |-> stdout.doc]

\* lines 144-203: the body after communicate() of the query
RunListReport(returncode, stdout, stderr) ==
    IF returncode # 0
    THEN IF Contains(stderr.data, "not found") \/ Contains(stderr.data, "No workflows found")
         THEN Return(Join(RunsHeader \o
                 << ICON_INFO \o "  No workflow runs found",
                    ICON_BULB \o " Check if this repository has GitHub Actions enabled" >>,
                 "\n"))
         ELSE LET err == Decode(stderr)
              IN  IF err.kind = "raise" THEN err
                  ELSE Return(Join(RunsHeader \o
                          <<ICON_FAIL \o " Error getting workflow runs: " \o err.value>>,
                          "\n"))
    ELSE LET loaded == JsonLoads(stdout)
         IN  IF loaded.kind = "raise" THEN loaded
             ELSE LET runs == loaded.value
                  IN  IF ~ TruthyValue(runs)
                      THEN Return(Join(RunsHeader \o
                              <<ICON_INFO \o "  No workflow runs found">>, "\n"))
                      ELSE IF runs.t = "num" THEN Raise("TypeError")       \* len(runs)
                      ELSE IF runs.t # "array" THEN Raise("AttributeError") \* str.get
                      ELSE LET blocks == RunBlocks(runs.items)
                           IN  IF blocks.kind = "raise" THEN blocks
                               ELSE Return(Join(RunsHeader \o
                                       << ICON_CHART \o " Latest " \o ToString(Len(runs.items))
                                             \o " Workflow Runs:", "" >>
                                       \o blocks.value, "\n"))

-----------------------------------------------------------------------------
(* _validate_workflow_yaml, src/mcp-server.py:287-398 *)

\* A workflow file: its name, what open()/read() does, the document
\* yaml.safe_load makes of it, and the two substring tests of lines 359-360.
\* Documents: [t |-> "syntax_error"], Null, [t |-> "list"], or a mapping with
\* its top-level keys and the value under 'jobs'.
Mapping(keys, jobs) == [t |-> "map", keys |-> keys, jobs |-> jobs]
Jobs(list) == [t |-> "jobs", list |-> list]
Job(name, runs_on, container) ==
    [name |-> name, data |-> [t |-> "job", runs_on |-> runs_on, container |-> container]]

\* lines 344-356: the errors of one entry of jobs.items()
JobErrors(job) ==
    IF job.data.t # "job"
    THEN <<"Job '" \o job.name \o "' must be a dictionary">>
    ELSE (IF ~ job.data.runs_on
          THEN <<"Job '" \o job.name \o "' missing 'runs-on'">> ELSE <<>>)
      \o (IF job.data.container = "dict_without_image"
          THEN <<"Job '" \o job.name \o "' container missing 'image'">> ELSE <<>>)

RECURSIVE AllJobErrors(_)
AllJobErrors(list) ==
    IF Len(list) = 0 THEN <<>>
    ELSE JobErrors(Head(list)) \o AllJobErrors(Tail(list))

\* lines 329-361: validation_errors of a parsed document, or the exception
StructureErrors(f) ==
    IF f.doc.t = "null" THEN Raise("TypeError")       \* 'on' not in None
    ELSE
    LET has(key) == f.doc.t = "map" /\ key \in f.doc.keys
    IN  [kind |-> "return", value |->
           (IF ~ has("on") THEN <<"Missing 'on' trigger definition">> ELSE <<>>)
        \o (IF ~ has("jobs") THEN <<"Missing 'jobs' definition">> ELSE <<>>)
        \o (IF has("jobs")
            THEN IF f.doc.jobs.t # "jobs" THEN <<"'jobs' must be a dictionary">>
                 ELSE AllJobErrors(f.doc.jobs.list)
            ELSE <<>>)
        \o (IF f.self_hosted_text /\ ~ f.container_text
            THEN <<"Self-hosted runner without container specification">>
            ELSE <<>>)]

\* lines 320-378: the lines one file adds, and whether it was valid
FileReport(f) ==
    LET failed(what, exc) ==
            [valid |-> FALSE,
             lines |-> << ICON_FAIL \o " " \o f.name \o ": " \o what,
                          "   Error: " \o StrOf(exc) >>]
    IN  IF f.read # "ok" THEN failed("Validation error", f.read)
        ELSE IF f.doc.t = "syntax_error" THEN failed("YAML syntax error", "YAMLError")
        ELSE LET errors == StructureErrors(f)
             IN  IF errors.kind = "raise" THEN failed("Validation error", errors.value)
                 ELSE IF Len(errors.value) > 0
                 THEN [valid |-> FALSE,
                       lines |-> <<ICON_SIGN \o "  " \o f.name \o ":">>
                                 \o [i \in 1..Len(errors.value) |->
                                        "   - " \o errors.value[i]]]
                 ELSE [valid |-> TRUE,
                       lines |-> <<ICON_OK \o " " \o f.name \o ": Valid">>]

RECURSIVE FileReports(_)
FileReports(files) ==
    IF Len(files) = 0 THEN [valid |-> TRUE, lines |-> <<>>]
    ELSE LET first == FileReport(Head(files))
             rest  == FileReports(Tail(files))
         IN  [valid |-> first.valid /\ rest.valid, lines |-> first.lines \o rest.lines]

YamlHeader == << ICON_MAG \o " GitHub Actions YAML Validation", Repeat("=", 40), "" >>

\* lines 394-398: the handler around the whole body
ValidateYamlHandler(result) ==
    IF result.kind = "raise" /\ IsInstance(result.value, "Exception")
    THEN Return(ICON_FAIL \o " Error validating workflow YAML: " \o StrOf(result.value))
    ELSE result

\* lines 290-392.  dir: state of .github/workflows; files: the files found
\* there (for a named file: that file, or none)
ValidateYamlBody(workflow_file, dir, files) ==
    IF dir = "error" THEN Raise("PermissionError")
    ELSE IF dir = "missing"
    THEN Return(Join(YamlHeader \o <<ICON_FAIL \o " No .github/workflows directory found">>,
                     "\n"))
    ELSE IF Len(workflow_file) > 0 /\ Len(files) = 0
    THEN Return(Join(YamlHeader \o
                     <<ICON_FAIL \o " Workflow file not found: " \o workflow_file>>, "\n"))
    ELSE IF Len(files) = 0
    THEN Return(Join(YamlHeader \o <<ICON_INFO \o "  No workflow files found">>, "\n"))
    ELSE LET reports == FileReports(files)
         IN  Return(Join(
                YamlHeader
                \o << ICON_CLIP \o " Validating " \o ToString(Len(files))
                         \o " workflow file(s):", "" >>
                \o reports.lines
                \o <<"">>
                \o (IF reports.valid
                    THEN <<ICON_PARTY \o " All workflow files are valid!">>
                    ELSE <<ICON_SIGN \o "  Some workflow files have issues that need attention">>)
                \o << "",
                      ICON_BULB \o " Helpful Commands:",
                      "   - Check workflow runs: Use 'check_workflow_runs' MCP tool",
                      "   - GitHub CLI: gh workflow list",
                      "   - GitHub CLI: gh run list --workflow <name>" >>, "\n"))

-----------------------------------------------------------------------------
(* What the environment can supply *)

MaxReturnCode == 2      \* largest exit status a child is given

\* exit statuses: 0..MaxReturnCode, and -9 for a child ended by SIGKILL
ReturnCodes == {-9} \cup (0..MaxReturnCode)

FileStates == {"exists", "missing", "error"}

LINT_STDOUT == "Checking... 0 warnings\nAll checks passed"

Stdouts ==
    { NoBytes,
      B(LINT_STDOUT),
      B("\nbuild error\nWarning: unused\n"),
      [data |-> "ok?done", bad |-> {3}] }

Stderrs ==
    { NoBytes,
      B("fatal: no such service\n\nsee log\n"),
      [data |-> "?", bad |-> {1}] }

\* wall-clock centiseconds a child may take to complete
Centis == {0, 5, 12345, 29999, 59999}

\* centiseconds by which the expiry of wait_for is noticed late
Overshoot == {0, 7}

\* a run record as the hosting CLI prints it for a finished run
GoodRun ==
    Obj([ status |-> Str("completed"), conclusion |-> Str("success"),
          workflowName |-> Str("CI"), headBranch |-> Str("main"),
          createdAt |-> Str("2024-05-06T07:08:09Z"),
          url |-> Str("https://github.com/o/r/actions/runs/42"),
          databaseId |-> Num(42) ])

\* the same record with one field left out or null
Without(key) == Obj([GoodRun.fields EXCEPT ![key] = Absent])
WithNull(key) == Obj([GoodRun.fields EXCEPT ![key] = Null])

SampleRuns ==
    { GoodRun,
      Obj([GoodRun.fields EXCEPT !["status"] = Str("in_progress"),
                                 !["conclusion"] = Str("")]),
      Obj([GoodRun.fields EXCEPT !["conclusion"] = Str("failure")]),
      Str("not a record") }
    \cup {Without(key) : key \in RunKeys}
    \cup {WithNull(key) : key \in RunKeys}

MaxRuns == 2            \* run records in one answer of the hosting CLI

RECURSIVE RunLists(_)
RunLists(n) ==
    IF n = 0 THEN {<<>>}
    ELSE LET shorter == RunLists(n - 1)
         IN  shorter \cup {Append(l, r) : l \in shorter, r \in SampleRuns}

\* stdout of `gh run list --json ...`: bytes and the document they parse to
Json(doc) == [data |-> "json", bad |-> {}, doc |-> doc]

\* nothing printed
NoJson == [data |-> "", bad |-> {}, doc |-> [t |-> "malformed"]]

\* a failing query prints nothing on stdout, a successful one nothing on stderr
RunListStdouts ==
    {Json(Arr(l)) : l \in RunLists(MaxRuns)}
    \cup { NoJson, Json([t |-> "malformed"]), Json(Null), Json(GoodRun), Json(Num(7)),
           [data |-> "?", bad |-> {1}, doc |-> [t |-> "malformed"]] }

RunListStderrs ==
    { NoBytes, B("could not find any workflows: not found"),
      B("HTTP 502"), [data |-> "HTTP ?", bad |-> {6}] }

RunsCalls ==
    { [fn |-> "_check_workflow_runs", tool |-> "check_workflow_runs",
       limit |-> 10, workflow_name |-> wf] : wf \in {"", "CI"} }

WorkflowFile(name, read, doc, self_hosted_text, container_text) ==
    [ name |-> name, read |-> read, doc |-> doc,
      self_hosted_text |-> self_hosted_text, container_text |-> container_text ]

SampleFiles ==
    { WorkflowFile("ci.yml", "ok",
          Mapping({"on", "jobs"}, Jobs(<<Job("build", TRUE, "absent")>>)), FALSE, FALSE),
      WorkflowFile("lint.yml", "ok",
          Mapping({"name", "jobs"},
                  Jobs(<< Job("a", FALSE, "dict_without_image"),
                          [name |-> "b", data |-> Str("x")] >>)), TRUE, TRUE),
      WorkflowFile("jobs.yml", "ok", Mapping({"on", "jobs"}, Str("x")), TRUE, FALSE),
      WorkflowFile("list.yml", "ok", [t |-> "list"], FALSE, FALSE),
      WorkflowFile("empty.yaml", "ok", Null, FALSE, FALSE),
      WorkflowFile("bad.yml", "ok", [t |-> "syntax_error"], FALSE, FALSE),
      WorkflowFile("locked.yml", "PermissionError", Null, FALSE, FALSE),
      WorkflowFile("latin1.yml", "UnicodeDecodeError", Null, FALSE, FALSE) }

MaxFiles == 2           \* workflow files in .github/workflows

RECURSIVE FileLists(_)
FileLists(n) ==
    IF n = 0 THEN {<<>>}
    ELSE LET shorter == FileLists(n - 1)
         IN  shorter \cup {Append(l, f) : l \in shorter, f \in SampleFiles}

-----------------------------------------------------------------------------
(* Server actions: one per stretch of code between two await points *)

\* the test of line 410 lost: the command runs whatever the validator said
ValidationPassed_Ignored(v) == TRUE

\* line 410: the test on the value _validate_docker_environment returned
ValidationPassed(v) == v = "True"

\* lines 410-431: what _run_docker_command does with the validator's value v,
\* up to its next await.  ps: the processes so far; spawn: what the next
\* create_subprocess_exec does.
RunAfterValidation(c, v, ps, spawn) ==
    IF ~ ValidationPassed(v)
    THEN [pc |-> "returned", procs |-> ps, outcome |-> "validation_failed",
          response |-> RunDockerHandler(Return(ENV_FAILURE))]
    ELSE IF spawn # "started"
    THEN [pc |-> "returned", procs |-> ps, outcome |-> "spawn_failed",
          response |-> RunDockerHandler(Raise(spawn))]
    ELSE [pc |-> "child", procs |-> Append(ps, Proc(BuildCmd(c))), outcome |-> "none",
          response |-> NoResponse]

\* lines 574-586: what _get_project_status does with the validator's value v
StatusAfterValidation(v, ps) ==
    [pc |-> "returned", procs |-> ps, outcome |-> "status",
     response |-> ProjectStatusReport(v)]

\* the probe of the validator is running
AwaitProbe ==
    [pc |-> "docker_ps", procs |-> <<Proc(DOCKER_PS)>>, outcome |-> "none",
     response |-> NoResponse]

\* lines 408-414 with 479-492: a docker tool is called; validation starts
RunDockerCommand(c, spawn) ==
    /\ pc = "idle"
    /\ call' = c
    /\ captured' = NoCapture
    /\ LET v == ValidateUntilProbe(compose_file, spawn)
           n == IF v = "pending" THEN AwaitProbe
                ELSE RunAfterValidation(c, v, <<>>, spawn)
       IN  /\ validation' = IF v = "pending" THEN "none" ELSE v
           /\ pc' = n.pc
           /\ procs' = n.procs
           /\ outcome' = n.outcome
           /\ response' = n.response
    /\ UNCHANGED <<compose_file, fvars>>

\* lines 567-575 with 479-492: project_status is called; validation starts
GetProjectStatus(spawn) ==
    /\ pc = "idle"
    /\ call' = ProjectStatusCall
    /\ captured' = NoCapture
    /\ LET v == ValidateUntilProbe(compose_file, spawn)
           n == IF v = "pending" THEN AwaitProbe
                ELSE StatusAfterValidation(v, <<>>)
       IN  /\ validation' = IF v = "pending" THEN "none" ELSE v
           /\ pc' = n.pc
           /\ procs' = n.procs
           /\ outcome' = n.outcome
           /\ response' = n.response
    /\ UNCHANGED <<compose_file, fvars>>

\* lines 493-494, then the caller: 575-580, or 410-431
DockerPsExit(returncode, spawn) ==
    /\ pc = "docker_ps"
    /\ LET v == ValidateAfterProbe(returncode)
           ended == SetLast(procs, Exited(Last(procs), returncode))
           n == IF call.fn = "_get_project_status"
                THEN StatusAfterValidation(v, ended)
                ELSE RunAfterValidation(call, v, ended, spawn)
       IN  /\ validation' = v
           /\ pc' = n.pc
           /\ procs' = n.procs
           /\ outcome' = n.outcome
           /\ response' = n.response
    /\ UNCHANGED <<call, compose_file, captured, fvars>>

\* lines 434-437 and 445-477: communicate() finishes within the timeout
ChildExit(returncode, stdout, stderr, centis) ==
    /\ pc = "child"
    /\ centis < call.timeout * 100
    /\ LET cap == [returncode |-> returncode, stdout |-> stdout,
                   stderr |-> stderr, centis |-> centis]
       IN  /\ captured' = cap
           /\ response' = RunDockerHandler(CompletedReport(call, BuildCmd(call), cap))
    /\ procs' = SetLast(procs, Exited(Last(procs), returncode))
    /\ outcome' = "completed"
    /\ pc' = "returned"
    /\ UNCHANGED <<call, compose_file, validation, fvars>>

\* lines 438-443: wait_for gives up after `timeout` seconds; the message
\* joins the argument vector `cmd` the child was created with
ChildTimeout(late) ==
    /\ pc = "child"
    /\ captured' = [NoCapture EXCEPT !.centis = call.timeout * 100 + late]
    /\ procs' = SetLast(procs, Killed(Last(procs)))
    /\ response' = RunDockerHandler(Return(TimeoutMessage(call, Last(procs).argv)))
    /\ outcome' = "timed_out"
    /\ pc' = "returned"
    /\ UNCHANGED <<call, compose_file, validation, fvars>>

\* lines 115-125 with 213-219: check_workflow_runs is called
CheckWorkflowRuns(c, spawn) ==
    /\ pc = "idle"
    /\ call' = c
    /\ IF spawn = "started"
       THEN /\ procs' = <<Proc(GH_VERSION)>>
            /\ pc' = "gh_version"
            /\ outcome' = "none"
            /\ response' = NoResponse
       ELSE LET auth == AuthHandler(spawn)
            IN  /\ procs' = <<>>
                /\ pc' = "returned"
                /\ outcome' = "auth_refused"
                /\ response' = CheckRunsHandler(
                                  IF auth.kind = "raise" THEN auth
                                  ELSE AuthRefused(auth.value))
    /\ UNCHANGED <<compose_file, validation, captured, fvars>>

\* lines 220-237, and 123-125 when the CLI is missing
GhVersionExit(returncode, spawn) ==
    /\ pc = "gh_version"
    /\ LET ended == SetLast(procs, Exited(Last(procs), returncode))
           auth  == IF returncode # 0
                    THEN [kind |-> "return", value |-> AuthNoCli]
                    ELSE AuthHandler(spawn)
       IN  IF returncode = 0 /\ spawn = "started"
           THEN /\ procs' = Append(ended, Proc(GH_AUTH_STATUS))
                /\ pc' = "gh_auth"
                /\ outcome' = "none"
                /\ response' = NoResponse
           ELSE /\ procs' = ended
                /\ pc' = "returned"
                /\ outcome' = "auth_refused"
                /\ response' = CheckRunsHandler(
                                  IF auth.kind = "raise" THEN auth
                                  ELSE AuthRefused(auth.value))
    /\ UNCHANGED <<call, compose_file, validation, captured, fvars>>

\* lines 238-276, then 123-140 and 196-209
GhAuthExit(returncode, token, spawn) ==
    /\ pc = "gh_auth"
    /\ LET ended == SetLast(procs, Exited(Last(procs), returncode))
       IN  IF returncode # 0
           THEN /\ procs' = ended
                /\ pc' = "returned"
                /\ outcome' = "auth_refused"
                /\ response' = CheckRunsHandler(AuthRefused(AuthMissing(token)))
           ELSE IF spawn # "started"
           THEN /\ procs' = ended
                /\ pc' = "returned"
                /\ outcome' = "spawn_failed"
                /\ response' = CheckRunsHandler(RunListSpawnFailed(spawn))
           ELSE /\ procs' = Append(ended, Proc(RunListCmd(call)))
                /\ pc' = "gh_run_list"
                /\ outcome' = "none"
                /\ response' = NoResponse
    /\ UNCHANGED <<call, compose_file, validation, captured, fvars>>

\* lines 142-209
GhRunListExit(returncode, stdout, stderr) ==
    /\ pc = "gh_run_list"
    /\ procs' = SetLast(procs, Exited(Last(procs), returncode))
    /\ captured' = [returncode |-> returncode, stdout |-> stdout,
                    stderr |-> stderr, centis |-> 0]
    /\ response' = CheckRunsHandler(RunListReport(returncode, stdout, stderr))
    /\ outcome' = "completed"
    /\ pc' = "returned"
    /\ UNCHANGED <<call, compose_file, validation, fvars>>

\* lines 287-398: validate_workflow_yaml is called; it never awaits
ValidateWorkflowYaml(workflow_file, dir, files) ==
    /\ pc = "idle"
    /\ Len(workflow_file) > 0 => Len(files) <= 1
    /\ call' = [fn |-> "_validate_workflow_yaml", tool |-> "validate_workflow_yaml",
                workflow_file |-> workflow_file]
    /\ LET named == [i \in 1..Len(files) |->
                        IF Len(workflow_file) > 0
                        THEN [files[i] EXCEPT !.name = workflow_file]
                        ELSE files[i]]
       IN  response' = ValidateYamlHandler(ValidateYamlBody(workflow_file, dir, named))
    /\ procs' = <<>>
    /\ outcome' = "completed"
    /\ pc' = "returned"
    /\ UNCHANGED <<compose_file, validation, captured, fvars>>

\* the response has been handed to the protocol layer; the next call may
\* find the compose file in another state
NextCall(file) ==
    /\ pc = "returned"
    /\ pc' = "idle"
    /\ call' = NoCall
    /\ procs' = <<>>
    /\ validation' = "none"
    /\ outcome' = "none"
    /\ captured' = NoCapture
    /\ response' = NoResponse
    /\ compose_file' = file
    /\ UNCHANGED fvars

SInit ==
    /\ pc = "idle"
    /\ call = NoCall
    /\ compose_file \in FileStates
    /\ procs = <<>>
    /\ validation = "none"
    /\ outcome = "none"
    /\ captured = NoCapture
    /\ response = NoResponse

Init ==
    /\ SInit
    /\ text = ""
    /\ formatted = ""
    /\ reformatted = ""
    /\ fpc = "off"

Next ==
    \/ \E c \in DockerTools, spawn \in SpawnResults : RunDockerCommand(c, spawn)
    \/ \E spawn \in SpawnResults : GetProjectStatus(spawn)
    \/ \E returncode \in ReturnCodes, spawn \in SpawnResults :
          DockerPsExit(returncode, spawn)
    \/ /\ pc = "child"
       /\ \E returncode \in ReturnCodes, stdout \in Stdouts, stderr \in Stderrs,
             centis \in Centis : ChildExit(returncode, stdout, stderr, centis)
    \/ \E late \in Overshoot : ChildTimeout(late)
    \/ \E c \in RunsCalls, spawn \in SpawnResults : CheckWorkflowRuns(c, spawn)
    \/ \E returncode \in ReturnCodes, spawn \in SpawnResults :
          GhVersionExit(returncode, spawn)
    \/ \E returncode \in ReturnCodes, token \in BOOLEAN, spawn \in SpawnResults :
          GhAuthExit(returncode, token, spawn)
    \/ /\ pc = "gh_run_list"
       /\ \E returncode \in ReturnCodes, stdout \in RunListStdouts,
             stderr \in RunListStderrs :
             /\ returncode = 0 => stderr = NoBytes
             /\ returncode # 0 => stdout = NoJson
             /\ GhRunListExit(returncode, stdout, stderr)
    \/ /\ pc = "idle"
       /\ \E workflow_file \in {"", "release.yml"}, dir \in FileStates,
             files \in FileLists(MaxFiles) :
             ValidateWorkflowYaml(workflow_file, dir, files)
    \/ \E file \in FileStates : NextCall(file)

Spec == Init /\ [][Next]_vars

\* The event loop is fair to its own timer: a wait_for that can expire does
\* expire unless the awaited work ends first.  Nothing obliges an external
\* process to terminate, so the exits of children carry no fairness.
Fairness == WF_vars(pc = "child" /\ \E late \in Overshoot : ChildTimeout(late))

SpecLive == Init /\ [][Next]_vars /\ Fairness

-----------------------------------------------------------------------------
(* Formatter harness: every bounded text is given to both formatters *)

\* the example line of the specification's section 8
BUILD_LINE == "Build succeeded despite 1 error warning"

Fragments ==
    { "error", "ERROR", "Warning", "success", "PASSED",
      "ok", " ", "\n", "\n\n", BUILD_LINE }

RECURSIVE TextsOf(_)
TextsOf(n) ==
    IF n = 0 THEN {""}
    ELSE LET shorter == TextsOf(n - 1)
         IN  shorter \cup {t \o f : t \in shorter, f \in Fragments}

Texts == TextsOf(MaxFrags)

FInit ==
    /\ SInit
    /\ compose_file = "exists"
    /\ text \in Texts
    /\ formatted = ""
    /\ reformatted = ""
    /\ fpc = "input"

FormatCommand ==
    /\ fpc = "input"
    /\ formatted' = _format_command_output(text)
    /\ fpc' = "command"
    /\ UNCHANGED <<text, reformatted, svars>>

FormatError ==
    /\ fpc = "input"
    /\ formatted' = _format_error_output(text)
    /\ fpc' = "error"
    /\ UNCHANGED <<text, reformatted, svars>>

INSERTED_ICONS == {ICON_OK, ICON_WARN, ICON_ERR}

\* a rendered line without the icon and blank the formatter put before it
RemoveIcon(line) ==
    IF \E icon \in INSERTED_ICONS :
          Len(line) >= Len(icon) + 1 /\ SubSeq(line, 1, Len(icon) + 1) = icon \o " "
    THEN SubSeq(line, 5, Len(line))
    ELSE line

\* a rendered text with the inserted icons taken out, line by line
RemoveIcons(rendered) ==
    LET lines == SplitOn(rendered, "\n")
    IN  Join([i \in 1..Len(lines) |-> RemoveIcon(lines[i])], "\n")

\* the formatter's output is formatted again, as it is
FormatAgain ==
    /\ fpc = "command"
    /\ reformatted' = _format_command_output(formatted)
    /\ fpc' = "again"
    /\ UNCHANGED <<text, formatted, svars>>

\* the formatter's output is formatted again, the inserted icons removed
FormatAgainPlain ==
    /\ fpc = "command"
    /\ reformatted' = _format_command_output(RemoveIcons(formatted))
    /\ fpc' = "again_plain"
    /\ UNCHANGED <<text, formatted, svars>>

FNext == FormatCommand \/ FormatError \/ FormatAgain \/ FormatAgainPlain

SpecFormat == FInit /\ [][FNext]_vars

-----------------------------------------------------------------------------
(* Properties *)

StartsWith(s, prefix) == Len(s) >= Len(prefix) /\ SubSeq(s, 1, Len(prefix)) = prefix

EndsWith(s, suffix) ==
    Len(s) >= Len(suffix) /\ SubSeq(s, Len(s) - Len(suffix) + 1, Len(s)) = suffix

\* the lines of the text handed back to the caller
ResponseLines == SplitOn(response.value, "\n")

IsExecute == call.fn = "_run_docker_command"

\* a process other than the validator's liveness probe was created
OperationLaunched == \E i \in 1..Len(procs) : procs[i].argv # DOCKER_PS

\* C1: when environment validation fails for an execute call, the operation's
\* command is never launched as a child process and the response is the
\* environment-failure message alone: no title line, no argument-vector
\* line, no duration line, for one-shot and compose commands alike.
C1_ValidationFailureLaunchesNothing ==
    (IsExecute /\ validation = "False") =>
        /\ ~ OperationLaunched
        /\ pc = "returned"
        /\ response.kind = "return"
        /\ response.value = ENV_FAILURE
        /\ ~ Contains(response.value, ICON_ROCKET)
        /\ ~ Contains(response.value, ICON_CLIP)
        /\ ~ Contains(response.value, ICON_TIMER)

\* a compose command refused because docker-compose.yml is missing
C1_Witness ==
    /\ IsExecute /\ call.compose_command
    /\ compose_file = "missing"
    /\ validation = "False"
    /\ pc = "returned"
    /\ response.value = ENV_FAILURE

\* the bound the tool was registered with
RegisteredBound == IF call.tool = "full_ci" THEN 600 ELSE 300

\* C2: when the child has not completed within the configured timeout, the
\* outcome carries no numeric exit code, the duration named is the configured
\* bound (300, or 600 for full_ci) and not the elapsed time, and the response
\* is the timeout message naming that bound, with no stdout or stderr section.
C2_TimeoutOutcome ==
    (IsExecute /\ outcome = "timed_out") =>
        /\ Last(procs).state # "exited"
        /\ response.kind = "return"
        /\ Len(ResponseLines) = 1
        /\ StartsWith(response.value,
                      ICON_FAIL \o " Command timed out after "
                         \o ToString(RegisteredBound) \o " seconds: ")
        /\ ~ Contains(response.value, "exit code")
        /\ ~ Contains(response.value, ICON_PAGE)
        /\ ~ Contains(response.value, ICON_FIRE)
        /\ ~ Contains(response.value, ICON_TIMER)

\* full_ci timed out and the expiry was noticed after more than 600 seconds
C2_Witness ==
    /\ IsExecute /\ call.tool = "full_ci"
    /\ outcome = "timed_out"
    /\ captured.centis > 60000
    /\ Contains(response.value, "after 600 seconds")

\* C3: no fault propagates out of the core: every execute, validate,
\* status-probe and YAML-validation call hands back a value (a text, or a
\* boolean for validate) whatever failed inside it, and never raises.
C3_NoFaultPropagates ==
    /\ validation \in {"none", "True", "False"}
    /\ pc = "returned" => response.kind = "return"

\* undecodable output of a completed child was absorbed into a text
C3_Witness ==
    /\ pc = "returned"
    /\ IsExecute /\ outcome = "completed"
    /\ captured.stdout.bad # {}
    /\ response = Return(ICON_FAIL \o " Error executing command: "
                            \o StrOf("UnicodeDecodeError"))

-----------------------------------------------------------------------------
(* Properties of the formatter *)

Tags == {"SUCCESS", "WARNING", "ERROR", "PLAIN"}

\* word occurs in line at position i, letter case ignored
KeywordAt(line, word, i) ==
    \A j \in 1..Len(word) : LowerChar(CharAt(line, i + j - 1)) = CharAt(word, j)

HasKeyword(line, word) ==
    \E i \in 1..(Len(line) - Len(word) + 1) : KeywordAt(line, word, i)

HasSuccess(line) ==
    HasKeyword(line, "success") \/ HasKeyword(line, "passed") \/ HasKeyword(line, "complete")

\* the priority rule: what tag a line must carry
TagAllowed(line, tag) ==
    /\ HasSuccess(line) => tag = "SUCCESS"
    /\ (~ HasSuccess(line) /\ HasKeyword(line, "warning")) => tag = "WARNING"
    /\ (~ HasSuccess(line) /\ ~ HasKeyword(line, "warning") /\ HasKeyword(line, "error"))
          => tag = "ERROR"
    /\ (~ HasSuccess(line) /\ ~ HasKeyword(line, "warning") /\ ~ HasKeyword(line, "error"))
          => tag = "PLAIN"

\* how a line carrying a tag is printed
Tagged(tag, line) ==
    CASE tag = "SUCCESS" -> ICON_OK \o " " \o line
      [] tag = "WARNING" -> ICON_WARN \o " " \o line
      [] tag = "ERROR"   -> ICON_ERR \o " " \o line
      [] tag = "PLAIN"   -> line

\* rendered is line printed with some tag
IsTaggedLine(rendered, line) == \E tag \in Tags : rendered = Tagged(tag, line)

\* C4: the standard-output classifier gives each line exactly one tag, with
\* the priority SUCCESS, WARNING, ERROR, PLAIN and keywords matched as
\* substrings whatever their letter case; a line holding both "error" and
\* "success" is SUCCESS.
C4_ClassifierPriority ==
    fpc = "command" =>
        LET lines    == SplitOn(Strip(text), "\n")
            rendered == SplitOn(formatted, "\n")
        IN  /\ Len(rendered) = Len(lines)
            /\ \A i \in 1..Len(lines) :
                  /\ \E tag \in Tags :
                        /\ rendered[i] = Tagged(tag, lines[i])
                        /\ TagAllowed(lines[i], tag)
                        /\ \A other \in Tags \ {tag} : rendered[i] # Tagged(other, lines[i])
                  /\ (HasKeyword(lines[i], "error") /\ HasKeyword(lines[i], "success"))
                        => rendered[i] = ICON_OK \o " " \o lines[i]

\* a line holding all three kinds of keyword, in mixed case, is SUCCESS
C4_Witness ==
    /\ fpc = "command"
    /\ text = "WarningERRORsuccess"
    /\ formatted = ICON_OK \o " WarningERRORsuccess"

\* C9 as stated: one classified line per newline-separated line of the
\* text, same order and content, empty lines kept also at the start and at
\* the end of the text.
C9_EveryLineOfTextKept ==
    fpc = "command" =>
        LET lines    == SplitOn(text, "\n")
            rendered == SplitOn(formatted, "\n")
        IN  /\ Len(rendered) = Len(lines)
            /\ \A i \in 1..Len(lines) : IsTaggedLine(rendered[i], lines[i])

\* C9 (amended): the classifier yields one classified line per
\* newline-separated line of the text with its leading and trailing whitespace
\* removed, in the same order and with the same content; empty lines inside
\* that text are kept, those at the start and the end of the input are not.
C9_EveryLineOfStrippedTextKept ==
    fpc = "command" =>
        LET lines    == SplitOn(Strip(text), "\n")
            rendered == SplitOn(formatted, "\n")
        IN  /\ Len(rendered) = Len(lines)
            /\ \A i \in 1..Len(lines) : IsTaggedLine(rendered[i], lines[i])

\* an empty line between two lines is kept
C9_Witness ==
    /\ fpc = "command"
    /\ text = "ok\n\nerror"
    /\ formatted = "ok\n\n" \o ICON_ERR \o " error"

\* C11 as stated: the line "Build succeeded despite 1 error warning" is
\* tagged SUCCESS, "succeeded" outranking "warning" and "error".
C11_BuildLineSuccess ==
    fpc = "command" =>
        LET lines    == SplitOn(Strip(text), "\n")
            rendered == SplitOn(formatted, "\n")
        IN  \A i \in 1..Len(lines) :
               lines[i] = BUILD_LINE => rendered[i] = ICON_OK \o " " \o BUILD_LINE

\* C11 (amended): the line "Build succeeded despite 1 error warning" is
\* tagged WARNING: it holds none of the substrings "success", "passed" and
\* "complete" ("succeeded" does not contain "success"), and "warning" is
\* tested before "error".
C11_BuildLineWarning ==
    fpc = "command" =>
        LET lines    == SplitOn(Strip(text), "\n")
            rendered == SplitOn(formatted, "\n")
        IN  /\ Len(rendered) = Len(lines)
            /\ \A i \in 1..Len(lines) :
                  lines[i] = BUILD_LINE => rendered[i] = ICON_WARN \o " " \o BUILD_LINE

\* the example line classified on its own
C11_Witness ==
    /\ fpc = "command"
    /\ text = BUILD_LINE
    /\ formatted = ICON_WARN \o " " \o BUILD_LINE

\* C12: classifying a text, rendering it with the severity icons and
\* classifying the rendered text again, with the icons left in or taken out,
\* gives the same number of lines and the same tag for every line.
C12_ReclassifyingKeepsTags ==
    fpc \in {"again", "again_plain"} =>
        LET first   == SplitOn(Strip(text), "\n")
            once    == SplitOn(formatted, "\n")
            given   == IF fpc = "again" THEN formatted ELSE RemoveIcons(formatted)
            second  == SplitOn(Strip(given), "\n")
            twice   == SplitOn(reformatted, "\n")
        IN  /\ Len(once) = Len(first)
            /\ Len(second) = Len(first)
            /\ Len(twice) = Len(first)
            /\ \A i \in 1..Len(first) : \A tag \in Tags :
                  (once[i] = Tagged(tag, first[i])) <=> (twice[i] = Tagged(tag, second[i]))

\* a WARNING line and an ERROR line keep their tags with the icons left in
C12_Witness ==
    /\ fpc = "again"
    /\ text = "Warning\nerror"
    /\ reformatted = ICON_WARN \o " " \o ICON_WARN \o " Warning\n"
                        \o ICON_ERR \o " " \o ICON_ERR \o " error"

-----------------------------------------------------------------------------
(* Properties of the server, continued *)

Completed == IsExecute /\ outcome = "completed"

Undecodable == captured.stdout.bad # {} \/ captured.stderr.bad # {}

\* the banner line of a completed child with this exit status
Banner(returncode) ==
    IF returncode = 0 THEN ICON_OK \o " Success!"
    ELSE ICON_FAIL \o " Failed with exit code " \o ToString(returncode)

\* the five leading lines of a report and the order of its sections
HasReportLayout(lines) ==
    /\ Len(lines) >= 5
    /\ lines[1] = ICON_ROCKET \o " " \o call.description
    /\ StartsWith(lines[2], ICON_CLIP \o " Command: ")
    /\ StartsWith(lines[3], ICON_TIMER)
    /\ lines[4] = ""
    /\ lines[5] = Banner(captured.returncode)
    /\ captured.returncode = 0 =>
          /\ \A i \in 1..Len(lines) : ~ StartsWith(lines[i], ICON_FIRE)
          /\ Truthy(captured.stdout) => Len(lines) > 6 /\ lines[6] = ICON_PAGE \o " Output:"
    /\ captured.returncode # 0 =>
          /\ Truthy(captured.stderr) =>
                Len(lines) > 6 /\ lines[6] = ICON_FIRE \o " Error output:"
          /\ Truthy(captured.stdout) =>
                \E j \in 6..Len(lines) : lines[j] = ICON_PAGE \o " Standard output:"
          /\ \A i, j \in 6..Len(lines) :
                (StartsWith(lines[i], ICON_FIRE) /\ StartsWith(lines[j], ICON_PAGE)) => i < j

\* C5: a call that passed validation and whose child completed before the
\* timeout answers with title, argument vector, duration, blank line and
\* outcome section in that order: success banner and stdout only for exit
\* code 0, failure banner with the code, then stderr, then stdout otherwise.
C5_ReportLayout ==
    Completed => (response.kind = "return" /\ HasReportLayout(ResponseLines))

\* C8: when the completed child's stdout or stderr holds bytes that are not
\* text, the call still answers with the normal report for the exit code and
\* not with an unexpected-error outcome.
C8_UndecodableOutputStillReported ==
    (Completed /\ Undecodable) =>
        /\ response.kind = "return"
        /\ ~ StartsWith(response.value, ICON_FAIL \o " Error executing command")
        /\ Len(ResponseLines) >= 5
        /\ ResponseLines[5] = Banner(captured.returncode)

NoWhitespace(w) == Len(w) > 0 /\ \A i \in 1..Len(w) : CharAt(w, i) \notin Whitespace

\* C6: a one-shot command is launched as docker-compose run --rm <sub-action>
\* with the sub-action one element, a compose command as docker-compose
\* followed by the words of the sub-action; the vector shown in the report
\* and in the timeout message is the vector launched.
C6_ArgumentVector ==
    (IsExecute /\ OperationLaunched) =>
        /\ Len(procs) = 2
        /\ LET argv == procs[2].argv
           IN  /\ IF call.compose_command
                  THEN /\ argv[1] = "docker-compose"
                       /\ Join(Tail(argv), " ") = call.command
                       /\ \A i \in 2..Len(argv) : NoWhitespace(argv[i])
                  ELSE argv = <<"docker-compose", "run", "--rm", call.command>>
               /\ outcome = "timed_out" =>
                     EndsWith(response.value, " seconds: " \o Join(argv, " "))
               /\ (outcome = "completed" /\ ~ Undecodable) =>
                     /\ Len(ResponseLines) >= 2
                     /\ ResponseLines[2] = ICON_CLIP \o " Command: " \o Join(argv, " ")

\* start_dev_env ran to completion as docker-compose up mcp-server -d
C6_Witness ==
    /\ Completed /\ call.tool = "start_dev_env"
    /\ procs[2].argv = <<"docker-compose", "up", "mcp-server", "-d">>
    /\ ResponseLines[2] = ICON_CLIP \o " Command: docker-compose up mcp-server -d"

UsesValidator == call.fn \in {"_run_docker_command", "_get_project_status"}

ProbeLaunched == \E i \in 1..Len(procs) : procs[i].argv = DOCKER_PS

\* C7: validate() gives true exactly when docker-compose.yml exists and the
\* liveness probe exits with 0, false in every other case, never an
\* exception; with the file missing the probe is not launched.
C7_ValidateIffBothChecksPass ==
    /\ compose_file # "exists" => ~ ProbeLaunched
    /\ (UsesValidator /\ pc = "returned") => validation # "none"
    /\ (UsesValidator /\ validation # "none") =>
          /\ validation \in {"True", "False"}
          /\ validation = "True" <=>
                /\ compose_file = "exists"
                /\ ProbeLaunched
                /\ procs[1].state = "exited"
                /\ procs[1].returncode = 0

\* the file is missing: false, and no probe
C7_Witness ==
    /\ UsesValidator
    /\ compose_file = "missing"
    /\ validation = "False"
    /\ procs = <<>>

LintScenario ==
    /\ Completed /\ call.tool = "lint" /\ call.timeout = 300
    /\ captured.returncode = 0
    /\ captured.stdout = B("Checking... 0 warnings\nAll checks passed")

\* C10 as stated: in the lint scenario the report has the success banner,
\* the first line tagged PLAIN, the second tagged SUCCESS, no stderr section.
C10_LintFirstLinePlain ==
    LintScenario =>
        /\ Len(ResponseLines) = 8
        /\ ResponseLines[5] = ICON_OK \o " Success!"
        /\ ResponseLines[7] = "Checking... 0 warnings"
        /\ ResponseLines[8] = ICON_OK \o " All checks passed"
        /\ ~ Contains(response.value, ICON_FIRE)

\* C10 (amended): in the lint scenario the report has the success banner,
\* then the first line tagged WARNING ("warnings" contains "warning") and the
\* second line tagged SUCCESS, in the original order, and no stderr section.
C10_LintFirstLineWarning ==
    LintScenario =>
        /\ Len(ResponseLines) = 8
        /\ ResponseLines[5] = ICON_OK \o " Success!"
        /\ ResponseLines[7] = ICON_WARN \o " Checking... 0 warnings"
        /\ ResponseLines[8] = ICON_OK \o " All checks passed"
        /\ ~ Contains(response.value, ICON_FIRE)

\* the lint scenario, with something on stderr that must not be shown
C10_Witness ==
    /\ LintScenario
    /\ Truthy(captured.stderr)
    /\ pc = "returned"

-----------------------------------------------------------------------------
(* Properties of the status probe *)

\* the hosting CLI answered the query with a non-empty list of run records
RunsAnswered ==
    /\ call.fn = "_check_workflow_runs"
    /\ outcome = "completed"
    /\ captured.returncode = 0
    /\ captured.stdout.bad = {}
    /\ captured.stdout.doc.t = "array"
    /\ Len(captured.stdout.doc.items) > 0

\* the field is missing from the record, or null
BadField(run, key) == run.t = "object" /\ run.fields[key].t \in {"absent", "null"}

\* C13: a run record with a missing, null or malformed field never makes the
\* probe fail: every record of the list is rendered as a block, the bad field
\* shown as "unknown", and the well-formed records are rendered normally.
C13_BadRecordsStillRendered ==
    RunsAnswered =>
        LET items   == captured.stdout.doc.items
            heads   == SelectSeq(ResponseLines, LAMBDA l : Contains(l, " **"))
            states  == SelectSeq(ResponseLines, LAMBDA l : StartsWith(l, "   Status: "))
        IN  /\ response.kind = "return"
            /\ ~ StartsWith(response.value, ICON_FAIL \o " Error checking workflow runs")
            /\ Len(heads) = Len(items)
            /\ Len(states) = Len(items)
            /\ \A k \in 1..Len(items) :
                  /\ items[k] = GoodRun =>
                        /\ heads[k] = ICON_OK \o " **CI** (main)"
                        /\ states[k] = "   Status: completed | Conclusion: success"
                  /\ BadField(items[k], "status") =>
                        StartsWith(states[k], "   Status: unknown | ")
                  /\ BadField(items[k], "conclusion") =>
                        EndsWith(states[k], " | Conclusion: unknown")
                  /\ BadField(items[k], "headBranch") => EndsWith(heads[k], " (unknown)")

-----------------------------------------------------------------------------
(* Termination of a call and the fate of its children *)

\* C14: every execute call eventually returns a response whatever its
\* external processes do; the wait for the liveness probe and for the
\* operation's child is bounded by the timeout.
C14_ExecuteEventuallyReturns == IsExecute ~> (pc = "returned")

\* every process the call created has ended: it exited or it was killed
NoChildRunning ==
    \A i \in 1..Len(procs) : procs[i].state \in {"exited", "killed"}

\* C15: when an execute call has its response, no child process it started
\* is still running: the liveness probe has exited, and the operation's
\* child has exited (completed outcome) or was killed before the timeout
\* response was built (timed-out outcome).
C15_NoChildRunningAtReturn ==
    (IsExecute /\ response.kind # "none") =>
        /\ pc = "returned"
        /\ NoChildRunning
        /\ outcome = "completed" =>
               /\ Last(procs).state = "exited"
               /\ Last(procs).returncode = captured.returncode
        /\ outcome = "timed_out" =>
               /\ Last(procs).argv = BuildCmd(call)
               /\ Last(procs).state = "killed"

C15_Witness ==
    /\ IsExecute
    /\ outcome = "timed_out"
    /\ response.kind = "return"
    /\ Len(procs) = 2
    /\ procs[1].argv = DOCKER_PS /\ procs[1].state = "exited"
    /\ procs[2].state = "killed"

=============================================================================
